---- MODULE Spec2Model ----
(***************************************************************************)
(* hid-io systray client: the HIDIOWorker session loop (asyncio, worker     *)
(* thread), the HIDIOClient callbacks, the Qt signal/slot bridge to         *)
(* SysTrayContext, and the SysTrayContext slots (main thread).              *)
(*                                                                          *)
(* The hidiocore client library (connect / disconnect /                     *)
(* retry_connection_status and the callbacks it drives) is the environment  *)
(* of main.py: it is modelled by what main.py asks of it and its choices    *)
(* are nondeterministic.                                                    *)
(***************************************************************************)
EXTENDS Integers, Sequences, FiniteSets, TLC

\* ------------------------------------------------------------------ bounds
MaxInputs   == 3      \* what the daemon does in one run: connections it
                      \* accepts, node list changes, log lines it pushes
MaxStops    == 2      \* calls of HIDIOWorker.stop() in one run
MaxShows    == 1      \* times the core log window is opened in one run

\* ------------------------------------------------------------ python values
\* Python values that cross a Signal: None and ints are kept apart.
PyNone   == [t |-> "NoneType"]
PyInt(v) == [t |-> "int", v |-> v]
PyStr(v) == [t |-> "str", v |-> v]
Unset    == [t |-> "unset"]

\* ------------------------------------------------------------- the daemon
DaemonName    == "daemonName"
DaemonVersion == "1.0.0"

\* A node as the daemon reports it: type is an enum value, node is the
\* interface capability that does not cross a Signal.
NodeK1 == [type |-> [enum |-> "usbKeyboard"], name |-> "K1", serial |-> "S1",
           id |-> 1, node |-> "capK1"]
NodeA1 == [type |-> [enum |-> "hidioApi"], name |-> "A1", serial |-> "S2",
           id |-> 2, node |-> "capA1"]

DaemonNodeLists == {<<NodeK1>>, <<NodeK1, NodeA1>>, <<NodeA1, NodeK1>>}

\* The daemon's log, one entry per line, each ending in a newline.
CoreLog == <<<<"a", "\n">>, <<"b", "\n">>, <<"c", "\n">>>>

\* hidiocore generates the client serial when the client object is made.
Serials == {"pid:4242"}

VARIABLES
    wpc,              \* position of the worker thread in start()/async_main()
    client,           \* HIDIOWorker.client: "None" or "HIDIOClient"
    loop,             \* HIDIOWorker.loop: FALSE while the attribute is unset
    tasks,            \* HIDIOWorker.tasks: "None" or "gather"
    serial,           \* client.serial ("" while there is no client)
    retry,            \* what client.retry_connection_status() returns
    exit_code,        \* the local exit_code of start()
    conn,             \* the library's connect task
    cap_auth,         \* the authenticated capability of the live connection
    daemonNodes,      \* the daemon's node list
    ninputs,          \* connections, node list changes and log lines so far
    npushed,          \* log lines pushed so far
    nconnects,        \* connections established so far
    sessions,         \* one record per on_connect call that completed
    emitted,          \* every signal emission of the worker, in order
    queue,            \* queued slot calls posted to the main thread
    delivered,        \* the slot calls the main thread has run, in order
    core_name, core_version, client_serial, nodes, exit_app,   \* SysTrayContext
    core_log_window,  \* SysTrayContext.core_log_window: FALSE while None
    coreLogView,      \* the lines of core_log_window.logViewer
    threadRunning,    \* the worker QThread's event loop has not been quit
    mainRunning,      \* main() is in its processEvents loop
    ready,            \* disconnect() coroutines queued on the asyncio loop
    stopCalls,        \* calls of stop() so far
    stopRaised,       \* a call of stop() raised into its caller
    loopRaised,       \* run_until_complete raised
    consumerAccess,   \* worker attributes the main thread has used itself
    nshows,           \* times core_log_window_show has run
    workerQueue,      \* queued slot calls posted to the worker thread
    main_return,      \* what main() returned (Unset while it has not)
    main_raised       \* the exception that ended main()'s loop, or "None"

workerVars == <<wpc, client, loop, tasks, serial, retry, exit_code>>
libVars    == <<conn, cap_auth, daemonNodes, ninputs, npushed, nconnects,
                sessions>>
sigVars    == <<emitted, queue>>
slotVars   == <<core_name, core_version, client_serial, nodes, exit_app,
                coreLogView, threadRunning>>
mainVars   == <<delivered, mainRunning, core_log_window>>
callVars   == <<ready, stopCalls, stopRaised, loopRaised, consumerAccess>>
winVars    == <<nshows, workerQueue, main_return, main_raised>>

vars == <<workerVars, libVars, sigVars, slotVars, mainVars, callVars, winVars>>

\* ------------------------------------------------------- signals and slots
\* The worker's signals (HIDIOWorker class attributes).
Initiated(s)        == [sig |-> "initiated", serial |-> s]
Connected(n, v, ns) == [sig |-> "connected", name |-> n, version |-> v, nodes |-> ns]
NodesUpdate(ns)     == [sig |-> "nodesupdate", nodes |-> ns]
Disconnected        == [sig |-> "disconnected"]
CoreLogEntry(e)     == [sig |-> "corelogentry", entry |-> e]
Finished(c)         == [sig |-> "finished", exit_code |-> c]

\* Connections with the connected signal wired to its slot twice.
Connections_twice(sig) ==
    CASE sig = "connected"    -> <<"connection", "connection">>
      [] sig = "nodesupdate"  -> <<"nodesupdate">>
      [] sig = "disconnected" -> <<"disconnection">>
      [] sig = "finished"     -> <<"thread_quit", "quit">>
      [] sig = "initiated"    -> <<"initiation">>
      [] sig = "corelogentry" -> <<"corelogupdate">>

\* The slots each signal is connected to, in the order of the connect calls.
Connections(sig) ==
    CASE sig = "connected"    -> <<"connection">>
      [] sig = "nodesupdate"  -> <<"nodesupdate">>
      [] sig = "disconnected" -> <<"disconnection">>
      [] sig = "finished"     -> <<"thread_quit", "quit">>
      [] sig = "initiated"    -> <<"initiation">>
      [] sig = "corelogentry" -> <<"corelogupdate">>

\* The slot calls one emission posts: the worker lives in the worker thread
\* (moveToThread) and every receiver in the main thread, so each connection
\* is queued: one call per connection is posted and emit returns.
Posts(ev) == [i \in 1..Len(Connections(ev.sig)) |->
                 [slot |-> Connections(ev.sig)[i], ev |-> ev]]

emit(ev) ==
    /\ emitted' = Append(emitted, ev)
    /\ queue'   = queue \o Posts(ev)

\* ------------------------------------------------------------------- Init
\* The state after SysTrayContext.__init__: the worker is constructed
\* (client None, no loop attribute), its thread is not started.
Init ==
    /\ wpc = "idle" /\ client = "None" /\ loop = FALSE /\ tasks = "None"
    /\ serial = "" /\ retry = FALSE /\ exit_code = Unset
    /\ conn = "none" /\ cap_auth = FALSE
    /\ daemonNodes = <<NodeK1, NodeA1>>
    /\ ninputs = 0 /\ npushed = 0 /\ nconnects = 0
    /\ sessions = <<>> /\ emitted = <<>> /\ queue = <<>> /\ delivered = <<>>
    /\ core_name = PyNone /\ core_version = PyNone /\ client_serial = ""
    /\ nodes = <<>> /\ exit_app = FALSE
    /\ core_log_window = FALSE /\ coreLogView = <<>>
    /\ threadRunning = FALSE /\ mainRunning = FALSE
    /\ ready = 0 /\ stopCalls = 0 /\ stopRaised = FALSE /\ loopRaised = FALSE
    /\ consumerAccess = {}
    /\ nshows = 0 /\ workerQueue = <<>> /\ main_return = Unset
    /\ main_raised = "None"

\* ------------------------------------------------- HIDIOWorker (worker thread)
\* start(), first statement: self.loop = asyncio.new_event_loop()
start_new_event_loop ==
    /\ wpc = "started"
    /\ wpc' = "loop" /\ loop' = TRUE
    /\ UNCHANGED <<client, tasks, serial, retry, exit_code>>
    /\ UNCHANGED <<libVars, sigVars, slotVars, mainVars, callVars, winVars>>

\* async_main: self.client = HIDIOClient(parent)
async_main_client ==
    /\ wpc = "loop"
    /\ \E s \in Serials : serial' = s
    /\ wpc' = "client" /\ client' = "HIDIOClient" /\ retry' = TRUE
    /\ UNCHANGED <<loop, tasks, exit_code>>
    /\ UNCHANGED <<libVars, sigVars, slotVars, mainVars, callVars, winVars>>

\* async_main that goes on to connect without emitting initiated.
async_main_initiated_skipped ==
    /\ wpc = "client"
    /\ wpc' = "initiated"
    /\ UNCHANGED <<client, loop, tasks, serial, retry, exit_code>>
    /\ UNCHANGED <<libVars, sigVars, slotVars, mainVars, callVars, winVars>>

\* async_main: self.initiated.emit(self.client.serial)
async_main_initiated ==
    /\ wpc = "client"
    /\ emit(Initiated(serial))
    /\ wpc' = "initiated"
    /\ UNCHANGED <<client, loop, tasks, serial, retry, exit_code>>
    /\ UNCHANGED <<libVars, slotVars, mainVars, callVars, winVars>>

\* async_main: self.tasks = [asyncio.gather(client.connect(auth=AUTH_BASIC),
\* return_exceptions=True)]: the connect task is scheduled on the loop.
async_main_tasks ==
    /\ wpc = "initiated"
    /\ wpc' = "polling" /\ tasks' = "gather" /\ conn' = "scheduled"
    /\ UNCHANGED <<client, loop, serial, retry, exit_code>>
    /\ UNCHANGED <<cap_auth, daemonNodes, ninputs, npushed, nconnects, sessions>>
    /\ UNCHANGED <<sigVars, slotVars, mainVars, callVars, winVars>>

\* async_main whose loop ends at its first test, whatever the client says.
async_main_poll_once ==
    /\ wpc = "polling"
    /\ wpc' = "returned" /\ exit_code' = PyNone
    /\ UNCHANGED <<client, loop, tasks, serial, retry>>
    /\ UNCHANGED <<libVars, sigVars, slotVars, mainVars, callVars, winVars>>

\* async_main: while self.client.retry_connection_status():
\* While the condition is true the coroutine goes to sleep; when it is false
\* async_main falls off its end and returns None, which run_until_complete
\* hands to exit_code.
async_main_poll ==
    /\ wpc = "polling"
    /\ IF retry
         THEN wpc' = "sleeping" /\ UNCHANGED exit_code
         ELSE wpc' = "returned" /\ exit_code' = PyNone
    /\ UNCHANGED <<client, loop, tasks, serial, retry>>
    /\ UNCHANGED <<libVars, sigVars, slotVars, mainVars, callVars, winVars>>

\* async_main: await asyncio.sleep(0.01) is over
async_main_wake ==
    /\ wpc = "sleeping"
    /\ wpc' = "polling"
    /\ UNCHANGED <<client, loop, tasks, serial, retry, exit_code>>
    /\ UNCHANGED <<libVars, sigVars, slotVars, mainVars, callVars, winVars>>

\* start(): except Exception as err: ... exit_code = 1
\* (an exception raised in the polling loop leaves run_until_complete)
start_except ==
    /\ wpc \in {"polling", "sleeping"}
    /\ wpc' = "returned" /\ exit_code' = PyInt(1) /\ loopRaised' = TRUE
    /\ UNCHANGED <<client, loop, tasks, serial, retry>>
    /\ UNCHANGED <<ready, stopCalls, stopRaised, consumerAccess>>
    /\ UNCHANGED <<libVars, sigVars, slotVars, mainVars, winVars>>

\* start(), last statement: self.finished.emit(exit_code); start() returns.
start_finished ==
    /\ wpc = "returned"
    /\ emit(Finished(exit_code))
    /\ wpc' = "done"
    /\ UNCHANGED <<client, loop, tasks, serial, retry, exit_code>>
    /\ UNCHANGED <<libVars, slotVars, mainVars, callVars, winVars>>

\* stop that also reports the end of the session itself.
stop_emits_finished ==
    /\ stopCalls < MaxStops
    /\ stopCalls' = stopCalls + 1
    /\ IF client = "None"
         THEN /\ stopRaised' = TRUE /\ UNCHANGED <<ready, emitted, queue>>
              /\ consumerAccess' = consumerAccess \cup {"client"}
         ELSE /\ ready' = ready + 1 /\ UNCHANGED stopRaised
              /\ consumerAccess' = consumerAccess \cup {"client", "loop"}
              /\ emitted' = Append(emitted, [sig |-> "finished", exit_code |-> PyInt(0)])
              /\ queue' = queue \o <<[slot |-> "quit",
                                      ev |-> [sig |-> "finished", exit_code |-> PyInt(0)]]>>
    /\ UNCHANGED <<client, loop, tasks, serial, retry, exit_code, loopRaised>>
    /\ UNCHANGED <<libVars, slotVars, delivered, core_log_window, winVars>>

\* stop(): asyncio.ensure_future(self.client.disconnect(), loop=self.loop)
\* The argument self.client.disconnect() is evaluated first: with client None
\* it raises AttributeError and nothing is scheduled. Otherwise the
\* disconnect coroutine is queued on the loop (which runs it only while the
\* loop is running) and stop returns. stop() is only ever called directly,
\* by stop_hidio and by __del__: it runs in its caller's thread, the main
\* thread, which reads self.client and, past that, hands self.loop a task.
stop ==
    /\ stopCalls < MaxStops
    /\ stopCalls' = stopCalls + 1
    /\ IF client = "None"
         THEN /\ stopRaised' = TRUE /\ UNCHANGED ready
              /\ consumerAccess' = consumerAccess \cup {"client"}
         ELSE /\ ready' = ready + 1 /\ UNCHANGED stopRaised
              /\ consumerAccess' = consumerAccess \cup {"client", "loop"}
    /\ UNCHANGED <<client, loop, tasks, serial, retry, exit_code, loopRaised>>
    /\ UNCHANGED <<libVars, sigVars, slotVars, delivered, core_log_window, winVars>>

\* __del__: self.stop() -- the worker is removed without having been started
HIDIOWorker_del ==
    /\ wpc = "idle"
    /\ wpc' = "deleted"
    /\ stop
    /\ UNCHANGED mainRunning

\* ------------------------------------------- HIDIOClient (asyncio callbacks)
\* The callbacks are run by tasks of the worker's asyncio loop: they run only
\* while async_main is suspended in its sleep.
LoopRunning == wpc = "sleeping"

\* nodes_as_dicts that builds its list by inserting at the front.
nodes_as_dicts_reversed(ns) ==
    [i \in 1..Len(ns) |-> [type   |-> ns[Len(ns) + 1 - i].type.enum,
                           name   |-> ns[Len(ns) + 1 - i].name,
                           serial |-> ns[Len(ns) + 1 - i].serial,
                           id     |-> ns[Len(ns) + 1 - i].id]]

\* nodes_as_dicts: one dict of type, name, serial, id per node, in order;
\* the interface (node.node) is left out.
nodes_as_dicts(ns) ==
    [i \in 1..Len(ns) |-> [type   |-> ns[i].type.enum,
                           name   |-> ns[i].name,
                           serial |-> ns[i].serial,
                           id     |-> ns[i].id]]

\* The unauthenticated node_dicts = {}: an empty container.
EmptyNodeDicts == <<>>

\* The library's connect task: an attempt is refused, the task will retry.
connect_refused ==
    /\ LoopRunning /\ retry
    /\ conn \in {"scheduled", "down"}
    /\ conn' = "down"
    /\ UNCHANGED <<cap_auth, daemonNodes, ninputs, npushed, nconnects, sessions>>
    /\ UNCHANGED <<workerVars, sigVars, slotVars, mainVars, callVars, winVars>>

\* on_connect(cap, cap_auth), up to its await: a connection is established.
\* Without cap_auth nothing is awaited and connected is emitted with {}.
on_connect ==
    /\ LoopRunning /\ retry
    /\ conn \in {"scheduled", "down"}
    /\ ninputs < MaxInputs
    /\ ninputs' = ninputs + 1
    /\ nconnects' = nconnects + 1
    /\ \E auth \in BOOLEAN :
         /\ cap_auth' = auth
         /\ IF auth
              THEN /\ conn' = "on_connect"
                   /\ UNCHANGED <<emitted, queue, sessions>>
              ELSE /\ conn' = "up"
                   /\ emit(Connected(DaemonName, DaemonVersion, EmptyNodeDicts))
                   /\ sessions' = Append(sessions,
                                     [auth |-> FALSE, snapshot |-> <<>>])
    /\ UNCHANGED <<daemonNodes, npushed>>
    /\ UNCHANGED <<workerVars, slotVars, mainVars, callVars, winVars>>

\* on_connect, after (await cap_auth.nodes().a_wait()).nodes: the snapshot
\* is the daemon's node list when it answers.
on_connect_nodes ==
    /\ LoopRunning
    /\ conn = "on_connect"
    /\ conn' = "up"
    /\ emit(Connected(DaemonName, DaemonVersion, nodes_as_dicts(daemonNodes)))
    /\ sessions' = Append(sessions, [auth |-> TRUE, snapshot |-> daemonNodes])
    /\ UNCHANGED <<cap_auth, daemonNodes, ninputs, npushed, nconnects>>
    /\ UNCHANGED <<workerVars, slotVars, mainVars, callVars, winVars>>

\* on_connect, the awaited nodes() query fails (the connection broke before
\* the daemon answered): on_connect raises into the library and emits nothing.
on_connect_raises ==
    /\ LoopRunning
    /\ conn = "on_connect"
    /\ conn' = "down" /\ cap_auth' = FALSE
    /\ UNCHANGED <<daemonNodes, ninputs, npushed, nconnects, sessions>>
    /\ UNCHANGED <<workerVars, sigVars, slotVars, mainVars, callVars, winVars>>

\* on_disconnect that logs and emits nothing.
on_disconnect_silent ==
    /\ wpc = "sleeping"
    /\ conn = "up"
    /\ conn' = "down" /\ cap_auth' = FALSE
    /\ UNCHANGED <<daemonNodes, ninputs, npushed, nconnects, sessions>>
    /\ UNCHANGED <<workerVars, sigVars, slotVars, mainVars, callVars, winVars>>

\* on_disconnect(): the connection is broken
on_disconnect ==
    /\ LoopRunning
    /\ conn = "up"
    /\ conn' = "down" /\ cap_auth' = FALSE
    /\ emit(Disconnected)
    /\ UNCHANGED <<daemonNodes, ninputs, npushed, nconnects, sessions>>
    /\ UNCHANGED <<workerVars, slotVars, mainVars, callVars, winVars>>

\* on_nodesupdate that emits its signal twice.
on_nodesupdate_twice ==
    /\ wpc = "sleeping"
    /\ conn = "up" /\ cap_auth
    /\ ninputs < MaxInputs
    /\ ninputs' = ninputs + 1
    /\ \E ns \in DaemonNodeLists \ {daemonNodes} :
         /\ daemonNodes' = ns
         /\ emitted' = emitted \o <<NodesUpdate(nodes_as_dicts(ns)),
                                    NodesUpdate(nodes_as_dicts(ns))>>
         /\ queue' = queue \o Posts(NodesUpdate(nodes_as_dicts(ns)))
                           \o Posts(NodesUpdate(nodes_as_dicts(ns)))
    /\ UNCHANGED <<conn, cap_auth, npushed, nconnects, sessions>>
    /\ UNCHANGED <<workerVars, slotVars, mainVars, callVars, winVars>>

\* on_nodesupdate(nodes): the daemon's node list changed and the
\* authenticated connection is notified of the new list.
on_nodesupdate ==
    /\ LoopRunning
    /\ conn = "up" /\ cap_auth
    /\ ninputs < MaxInputs
    /\ ninputs' = ninputs + 1
    /\ \E ns \in DaemonNodeLists \ {daemonNodes} :
         /\ daemonNodes' = ns
         /\ emit(NodesUpdate(nodes_as_dicts(ns)))
    /\ UNCHANGED <<conn, cap_auth, npushed, nconnects, sessions>>
    /\ UNCHANGED <<workerVars, slotVars, mainVars, callVars, winVars>>

\* The daemon's node list changes while on_connect awaits its nodes() query:
\* no subscription is up yet and nobody is notified.
daemon_nodes_change ==
    /\ conn = "on_connect"
    /\ ninputs < MaxInputs
    /\ ninputs' = ninputs + 1
    /\ \E ns \in DaemonNodeLists \ {daemonNodes} : daemonNodes' = ns
    /\ UNCHANGED <<conn, cap_auth, npushed, nconnects, sessions>>
    /\ UNCHANGED <<workerVars, sigVars, slotVars, mainVars, callVars, winVars>>

\* The line the daemon pushes as its n-th log entry.
CoreLogLine(n) == CoreLog[((n - 1) % Len(CoreLog)) + 1]

\* on_core_log_entry run by a library that calls back whether or not the
\* worker's loop is running.
on_core_log_entry_anytime ==
    /\ conn = "up"
    /\ ninputs < MaxInputs
    /\ ninputs' = ninputs + 1
    /\ npushed' = npushed + 1
    /\ emit(CoreLogEntry(CoreLogLine(npushed + 1)))
    /\ UNCHANGED <<conn, cap_auth, daemonNodes, nconnects, sessions>>
    /\ UNCHANGED <<workerVars, slotVars, mainVars, callVars, winVars>>

\* on_core_log_entry(entry): the daemon pushed its next log line
on_core_log_entry ==
    /\ LoopRunning
    /\ conn = "up"
    /\ ninputs < MaxInputs
    /\ ninputs' = ninputs + 1
    /\ npushed' = npushed + 1
    /\ emit(CoreLogEntry(CoreLogLine(npushed + 1)))
    /\ UNCHANGED <<conn, cap_auth, daemonNodes, nconnects, sessions>>
    /\ UNCHANGED <<workerVars, slotVars, mainVars, callVars, winVars>>

\* client.disconnect(), the coroutine stop() queued: the library stops
\* retrying, so retry_connection_status() is false from here on.
client_disconnect ==
    /\ LoopRunning
    /\ ready > 0
    /\ ready' = ready - 1
    /\ retry' = FALSE
    /\ UNCHANGED <<wpc, client, loop, tasks, serial, exit_code>>
    /\ UNCHANGED <<stopCalls, stopRaised, loopRaised, consumerAccess>>
    /\ UNCHANGED <<libVars, sigVars, slotVars, mainVars, winVars>>

\* The connect task ends with an unexpected exception. gather(...,
\* return_exceptions=True) keeps it as the task's result and nobody awaits
\* self.tasks. Whether the library also gives up retrying is its choice.
connect_raises ==
    /\ LoopRunning
    /\ conn \in {"scheduled", "down", "on_connect", "up"}
    /\ conn' = "raised" /\ cap_auth' = FALSE
    /\ \E r \in {retry, FALSE} : retry' = r
    /\ UNCHANGED <<wpc, client, loop, tasks, serial, exit_code>>
    /\ UNCHANGED <<daemonNodes, ninputs, npushed, nconnects, sessions>>
    /\ UNCHANGED <<sigVars, slotVars, mainVars, callVars, winVars>>

\* ------------------------------------------------ SysTrayContext (main thread)
\* run(): self.hidio_worker_thread.start(); main() then enters its loop.
\* The thread's started signal calls the worker's start().
run ==
    /\ wpc = "idle"
    /\ wpc' = "started" /\ threadRunning' = TRUE /\ mainRunning' = TRUE
    /\ UNCHANGED <<client, loop, tasks, serial, retry, exit_code>>
    /\ UNCHANGED <<core_name, core_version, client_serial, nodes, exit_app,
                   coreLogView, delivered, core_log_window>>
    /\ UNCHANGED <<libVars, sigVars, callVars, winVars>>

\* stop_hidio that also ends the application itself.
stop_hidio_quits ==
    /\ mainRunning
    /\ stopCalls < MaxStops
    /\ stopCalls' = stopCalls + 1
    /\ IF client = "None"
         THEN /\ stopRaised' = TRUE /\ UNCHANGED ready
              /\ consumerAccess' = consumerAccess \cup {"client"}
         ELSE /\ ready' = ready + 1 /\ UNCHANGED stopRaised
              /\ consumerAccess' = consumerAccess \cup {"client", "loop"}
    /\ exit_app' = TRUE
    /\ UNCHANGED <<core_name, core_version, client_serial, nodes, coreLogView,
                   threadRunning, loopRaised>>
    /\ UNCHANGED <<workerVars, libVars, sigVars, mainVars, winVars>>

\* stop_hidio(): the Exit menu action; self.hidio_worker.stop() is a direct
\* call made by the main thread.
stop_hidio ==
    /\ mainRunning
    /\ stop
    /\ UNCHANGED <<wpc, mainRunning>>

\* core_log_window_show(): the core log menu action. A new window is loaded
\* (its logViewer is empty) and replaces core_log_window; then
\* self.resetcorelog.emit() runs HIDIOWorkerThread.yay at once (the thread
\* object lives in the main thread), and yay's resetcorelog.emit() posts one
\* queued call of HIDIOWorker.resetcorelogposition to the worker thread.
core_log_window_show ==
    /\ mainRunning
    /\ nshows < MaxShows
    /\ nshows' = nshows + 1
    /\ core_log_window' = TRUE
    /\ coreLogView' = <<>>
    /\ workerQueue' = Append(workerQueue,
                          [slot |-> "resetcorelogposition",
                           running |-> wpc \in {"loop", "client", "initiated",
                                                "polling", "sleeping"}])
    /\ UNCHANGED <<core_name, core_version, client_serial, nodes, exit_app,
                   threadRunning, delivered, mainRunning, main_return,
                   main_raised>>
    /\ UNCHANGED <<workerVars, libVars, sigVars, callVars>>

\* resetcorelogposition(): run by the worker thread's own Qt event loop, which
\* the thread reaches only when start() has returned and leaves when the
\* thread is quit. The slot logs; its call into the client is commented out.
resetcorelogposition ==
    /\ wpc = "done" /\ threadRunning
    /\ workerQueue # <<>>
    /\ workerQueue' = Tail(workerQueue)
    /\ UNCHANGED <<nshows, main_return, main_raised>>
    /\ UNCHANGED <<workerVars, libVars, sigVars, slotVars, mainVars, callVars>>

\* entry[:-1]
DropLast(entry) == SubSeq(entry, 1, Len(entry) - 1)

\* The slots of the main thread, applied to one queued call.
initiation(ev) ==
    /\ client_serial' = ev.serial
    /\ UNCHANGED <<core_name, core_version, nodes, exit_app, coreLogView,
                   threadRunning>>

connection(ev) ==
    /\ core_version' = PyStr(ev.version)
    /\ core_name' = PyStr(ev.name)
    /\ nodes' = ev.nodes
    /\ UNCHANGED <<client_serial, exit_app, coreLogView, threadRunning>>

\* nodesupdate that adds the new list to the one it has.
nodesupdate_merges(ev) ==
    /\ nodes' = nodes \o ev.nodes
    /\ UNCHANGED <<core_name, core_version, client_serial, exit_app,
                   coreLogView, threadRunning>>

nodesupdate(ev) ==
    /\ nodes' = ev.nodes
    /\ UNCHANGED <<core_name, core_version, client_serial, exit_app,
                   coreLogView, threadRunning>>

\* disconnection that forgets the daemon but keeps its nodes.
disconnection_keeps_nodes ==
    /\ core_version' = PyNone
    /\ core_name' = PyNone
    /\ UNCHANGED <<nodes, client_serial, exit_app, coreLogView, threadRunning>>

disconnection ==
    /\ core_version' = PyNone
    /\ core_name' = PyNone
    /\ nodes' = <<>>
    /\ UNCHANGED <<client_serial, exit_app, coreLogView, threadRunning>>

\* corelogupdate that keeps the lines it gets while there is no window and
\* shows them with the next one.
corelogupdate_buffers(ev) ==
    /\ coreLogView' = Append(coreLogView, DropLast(ev.entry))
    /\ UNCHANGED <<core_name, core_version, client_serial, nodes, exit_app,
                   threadRunning>>

corelogupdate(ev) ==
    /\ IF ~core_log_window
         THEN UNCHANGED coreLogView
         ELSE coreLogView' = Append(coreLogView, DropLast(ev.entry))
    /\ UNCHANGED <<core_name, core_version, client_serial, nodes, exit_app,
                   threadRunning>>

quit ==
    /\ exit_app' = TRUE
    /\ UNCHANGED <<core_name, core_version, client_serial, nodes, coreLogView,
                   threadRunning>>

\* QThread.quit of hidio_worker_thread
thread_quit ==
    /\ threadRunning' = FALSE
    /\ UNCHANGED <<core_name, core_version, client_serial, nodes, exit_app,
                   coreLogView>>

\* main(): qapp.processEvents(maxtime=10) runs the oldest queued slot call
processEvents ==
    /\ mainRunning
    /\ queue # <<>>
    /\ LET call == Head(queue) IN
         /\ queue' = Tail(queue)
         /\ delivered' = Append(delivered, call)
         /\ CASE call.slot = "initiation"    -> initiation(call.ev)
              [] call.slot = "connection"    -> connection(call.ev)
              [] call.slot = "nodesupdate"   -> nodesupdate(call.ev)
              [] call.slot = "disconnection" -> disconnection
              [] call.slot = "corelogupdate" -> corelogupdate(call.ev)
              [] call.slot = "quit"          -> quit
              [] call.slot = "thread_quit"   -> thread_quit
    /\ UNCHANGED <<emitted, mainRunning, core_log_window>>
    /\ UNCHANGED <<workerVars, libVars, callVars, winVars>>

\* main that returns the exit code the worker finished with.
main_exit_worker_code ==
    /\ mainRunning
    /\ exit_app
    /\ mainRunning' = FALSE
    /\ main_return' = emitted[Len(emitted)].exit_code
    /\ UNCHANGED <<delivered, core_log_window, nshows, workerQueue, main_raised>>
    /\ UNCHANGED <<workerVars, libVars, sigVars, slotVars, callVars>>

\* main(): while not systray.exit_app -- the loop ends and main returns the
\* exit_code it set before the loop.
main_exit ==
    /\ mainRunning
    /\ exit_app
    /\ mainRunning' = FALSE
    /\ main_return' = PyInt(0)
    /\ UNCHANGED <<delivered, core_log_window, nshows, workerQueue, main_raised>>
    /\ UNCHANGED <<workerVars, libVars, sigVars, slotVars, callVars>>

\* main(): except KeyboardInterrupt: exit_code = 1
main_KeyboardInterrupt ==
    /\ mainRunning
    /\ mainRunning' = FALSE
    /\ main_return' = PyInt(1)
    /\ main_raised' = "KeyboardInterrupt"
    /\ UNCHANGED <<delivered, core_log_window, nshows, workerQueue>>
    /\ UNCHANGED <<workerVars, libVars, sigVars, slotVars, callVars>>

\* main(): except RuntimeError: exit_code = 0 -- the toolkit's application
\* object is gone and processEvents raises
main_RuntimeError ==
    /\ mainRunning
    /\ mainRunning' = FALSE
    /\ main_return' = PyInt(0)
    /\ main_raised' = "RuntimeError"
    /\ UNCHANGED <<delivered, core_log_window, nshows, workerQueue>>
    /\ UNCHANGED <<workerVars, libVars, sigVars, slotVars, callVars>>

\* ------------------------------------------------------------ specification
WorkerStep ==
    \/ start_new_event_loop
    \/ async_main_client
    \/ async_main_initiated
    \/ async_main_tasks
    \/ async_main_poll
    \/ async_main_wake
    \/ start_finished

Next ==
    \/ run
    \/ start_new_event_loop
    \/ async_main_client
    \/ async_main_initiated
    \/ async_main_tasks
    \/ async_main_poll
    \/ async_main_wake
    \/ start_except
    \/ start_finished
    \/ stop_hidio
    \/ HIDIOWorker_del
    \/ connect_refused
    \/ on_connect
    \/ on_connect_nodes
    \/ on_connect_raises
    \/ on_disconnect
    \/ on_nodesupdate
    \/ daemon_nodes_change
    \/ on_core_log_entry
    \/ client_disconnect
    \/ connect_raises
    \/ processEvents
    \/ main_exit

Spec == Init /\ [][Next]_vars

\* The worker thread keeps running its code, and the asyncio loop runs a
\* queued task the next time async_main sleeps (its ready queue is FIFO).
FairSpec ==
    /\ Spec
    /\ WF_vars(WorkerStep)
    /\ SF_vars(client_disconnect)

\* The runs in which nothing raises: no exception in the session loop, in the
\* connect task or in on_connect.
NextQuiet ==
    \/ run
    \/ start_new_event_loop
    \/ async_main_client
    \/ async_main_initiated
    \/ async_main_tasks
    \/ async_main_poll
    \/ async_main_wake
    \/ start_finished
    \/ stop_hidio
    \/ HIDIOWorker_del
    \/ connect_refused
    \/ on_connect
    \/ on_connect_nodes
    \/ on_disconnect
    \/ on_nodesupdate
    \/ daemon_nodes_change
    \/ on_core_log_entry
    \/ client_disconnect
    \/ processEvents
    \/ main_exit

QuietSpec ==
    /\ Init /\ [][NextQuiet]_vars
    /\ WF_vars(WorkerStep)
    /\ SF_vars(client_disconnect)

\* The runs in which nobody calls stop().
NextUnstopped ==
    \/ run
    \/ start_new_event_loop
    \/ async_main_client
    \/ async_main_initiated
    \/ async_main_tasks
    \/ async_main_poll
    \/ async_main_wake
    \/ start_except
    \/ start_finished
    \/ connect_refused
    \/ on_connect
    \/ on_connect_nodes
    \/ on_connect_raises
    \/ on_disconnect
    \/ on_nodesupdate
    \/ daemon_nodes_change
    \/ on_core_log_entry
    \/ connect_raises
    \/ processEvents
    \/ main_exit

UnstoppedSpec ==
    /\ Init /\ [][NextUnstopped]_vars
    /\ WF_vars(WorkerStep)

\* The run against a transport that refuses every connection attempt: the
\* library never gets to call on_connect.
NextRefused ==
    \/ run
    \/ start_new_event_loop
    \/ async_main_client
    \/ async_main_initiated
    \/ async_main_tasks
    \/ async_main_poll
    \/ async_main_wake
    \/ start_except
    \/ start_finished
    \/ stop_hidio
    \/ HIDIOWorker_del
    \/ connect_refused
    \/ client_disconnect
    \/ connect_raises
    \/ processEvents
    \/ main_exit

RefusedSpec ==
    /\ Init /\ [][NextRefused]_vars
    /\ WF_vars(WorkerStep)
    /\ SF_vars(client_disconnect)

\* The runs in which the core log window is used: the session with its
\* connections and log lines, the window's menu action and the worker
\* thread's queued slot, and nothing that raises.
NextWindow ==
    \/ run
    \/ start_new_event_loop
    \/ async_main_client
    \/ async_main_initiated
    \/ async_main_tasks
    \/ async_main_poll
    \/ async_main_wake
    \/ start_finished
    \/ stop_hidio
    \/ on_connect
    \/ on_connect_nodes
    \/ on_disconnect
    \/ on_core_log_entry
    \/ client_disconnect
    \/ processEvents
    \/ core_log_window_show
    \/ resetcorelogposition
    \/ main_exit

\* The worker thread's Qt event loop, too, runs a queued call when it can.
WindowSpec ==
    /\ Init /\ [][NextWindow]_vars
    /\ WF_vars(WorkerStep)
    /\ SF_vars(client_disconnect)
    /\ WF_vars(resetcorelogposition)

\* The runs of main() to its return: the session as far as its end matters
\* (connections, stop, exceptions), the main loop, and Ctrl+C.
NextMain ==
    \/ run
    \/ start_new_event_loop
    \/ async_main_client
    \/ async_main_initiated
    \/ async_main_tasks
    \/ async_main_poll
    \/ async_main_wake
    \/ start_except
    \/ start_finished
    \/ stop_hidio
    \/ on_connect
    \/ on_connect_nodes
    \/ on_disconnect
    \/ client_disconnect
    \/ connect_raises
    \/ processEvents
    \/ main_exit
    \/ main_KeyboardInterrupt
    \/ main_RuntimeError

MainSpec == Init /\ [][NextMain]_vars

\* ------------------------------------------------------------------ claims
Emitted(sig) == SelectSeq(emitted, LAMBDA e : e.sig = sig)
Count(sig)   == Len(Emitted(sig))

\* The connected and disconnected emissions, in order.
ConnSeq == SelectSeq(emitted, LAMBDA e : e.sig \in {"connected", "disconnected"})

\* C1: whatever connections the library reports as made and broken, the
\* connected and disconnected emissions alternate, starting with connected:
\* no two connected emissions without a disconnected one between them.
C1_ConnectedAlternates ==
    /\ ConnSeq # <<>> => ConnSeq[1].sig = "connected"
    /\ \A i \in 1..(Len(ConnSeq) - 1) : ConnSeq[i].sig # ConnSeq[i + 1].sig

C1_Witness ==
    /\ Len(ConnSeq) >= 3
    /\ ConnSeq[1].sig = "connected" /\ ConnSeq[3].sig = "connected"

\* The slot calls made for the SysTrayContext, run or still queued, in order.
SysTrayCalls == SelectSeq(delivered \o queue, LAMBDA c : c.slot # "thread_quit")

\* C2: every emission reaches the SysTrayContext slot of its signal at most
\* once and in the order of emission, for every interleaving of the worker and
\* the main loop (the calls run so far, followed by the calls still queued,
\* are the emissions in order, one call each); and an emission never waits
\* for the main thread: the worker's emitting steps are enabled whatever is
\* queued.
C2_DeliveredOnceInOrder ==
    /\ Len(SysTrayCalls) = Len(emitted)
    /\ \A i \in 1..Len(emitted) :
         /\ SysTrayCalls[i].ev = emitted[i]
         /\ SysTrayCalls[i].slot =
              (CASE emitted[i].sig = "connected"    -> "connection"
                 [] emitted[i].sig = "nodesupdate"  -> "nodesupdate"
                 [] emitted[i].sig = "disconnected" -> "disconnection"
                 [] emitted[i].sig = "finished"     -> "quit"
                 [] emitted[i].sig = "initiated"    -> "initiation"
                 [] emitted[i].sig = "corelogentry" -> "corelogupdate")
    /\ wpc = "client" => ENABLED async_main_initiated
    /\ wpc = "returned" => ENABLED start_finished
    /\ (wpc = "sleeping" /\ conn = "up") => ENABLED on_disconnect

C2_Witness ==
    /\ Len(delivered) >= 2 /\ Len(queue) >= 2
    /\ delivered[2].slot = "connection"

\* C3: with stop() called twice or more, at any points of the run, finished
\* is emitted exactly once: never twice, and once as soon as start() is over.
C3_OneFinished ==
    stopCalls >= 2 =>
        /\ Count("finished") <= 1
        /\ wpc = "done" => Count("finished") = 1

C3_Witness ==
    /\ stopCalls >= 2 /\ ready = 1
    /\ wpc = "done" /\ Count("finished") = 1

\* The exit codes the finished emissions carry.
FinishedCodes == {e.exit_code : e \in {emitted[i] : i \in 1..Len(emitted)} \cap
                                      {Finished(c) : c \in {PyNone, Unset, PyInt(0), PyInt(1)}}}

NonZero(c) == c.t = "int" /\ c.v # 0

\* C4: stop() called at any moment after the worker thread was started
\* returns at once and, the worker being scheduled fairly, finished is
\* emitted in the end.
C4_StopLeadsToFinished ==
    (stopCalls > 0 /\ threadRunning) ~> (Count("finished") = 1)

C6_ExitCodes ==
    \A c \in FinishedCodes :
        /\ (~loopRaised /\ conn # "raised" /\ ~stopRaised) => c = PyInt(0)
        /\ loopRaised => NonZero(c)

\* C7: every fatal error of the session, an exception of the background
\* connect task included, ends the worker with a finished emission carrying a
\* non-zero exit code.
C7_FatalErrorsReported ==
    (conn = "raised" \/ loopRaised) ~> (\E c \in FinishedCodes : NonZero(c))

\* C8: stop() raises into its caller in no state of the worker.
C8_StopNeverRaises == ~stopRaised

Descriptor(n) == [type |-> n.type.enum, name |-> n.name, serial |-> n.serial,
                  id |-> n.id]

\* C10: each on_connect that completes emits exactly one connected, carrying
\* the daemon's name and version and, when authenticated, one descriptor of
\* type, name, serial, id per node of the snapshot the daemon returned, in the
\* daemon's order; when unauthenticated, no nodes. No connected is emitted
\* otherwise, and while a connection is up the last of the connected and
\* disconnected emissions is its connected.
C10_ConnectedCarriesSnapshot ==
    /\ Len(Emitted("connected")) = Len(sessions)
    /\ \A i \in 1..Len(sessions) :
         LET e == Emitted("connected")[i]
             snap == sessions[i].snapshot
         IN /\ e.name = DaemonName /\ e.version = DaemonVersion
            /\ IF sessions[i].auth
                 THEN /\ Len(e.nodes) = Len(snap)
                      /\ \A k \in 1..Len(snap) : e.nodes[k] = Descriptor(snap[k])
                 ELSE e.nodes = <<>>
    /\ Len(sessions) <= nconnects
    /\ conn = "up" => /\ ConnSeq # <<>>
                      /\ ConnSeq[Len(ConnSeq)].sig = "connected"

C10_Witness ==
    /\ Len(sessions) = 2
    /\ sessions[1].auth /\ sessions[1].snapshot = <<NodeA1, NodeK1>>
    /\ ~sessions[2].auth
    /\ conn = "up"

\* The positions in delivered of the slot calls of the given slots.
DeliveredAt(slots) == {i \in 1..Len(delivered) : delivered[i].slot \in slots}

Last(S) == CHOOSE m \in S : \A i \in S : i <= m

\* C11: whatever connection and nodesupdate calls the SysTrayContext has run,
\* its nodes attribute is exactly the node list of the last of them, nothing
\* of an earlier list being kept (and it is empty when a disconnection has
\* been run since).
C11_NodeViewIsLastSnapshot ==
    LET snaps == DeliveredAt({"connection", "nodesupdate"})
        all   == DeliveredAt({"connection", "nodesupdate", "disconnection"})
    IN  /\ all = {} => nodes = <<>>
        /\ all # {} =>
              IF Last(all) \in snaps
                THEN nodes = delivered[Last(all)].ev.nodes
                ELSE nodes = <<>>

C11_Witness ==
    /\ \E i \in DeliveredAt({"nodesupdate"}) :
          /\ Len(delivered[i].ev.nodes) = 2
          /\ i < Last(DeliveredAt({"nodesupdate"}))
    /\ nodes = <<Descriptor(NodeK1)>>

\* C12: a call of on_nodesupdate emits exactly one nodesupdate and nothing
\* else, and leaves the connection as it is; the nodesupdate slot it leads to
\* leaves the SysTrayContext's core_name and core_version (and everything but
\* nodes) as they are.
C12_NodesUpdateFrame ==
    [][ /\ Count("nodesupdate")' # Count("nodesupdate") =>
             /\ Count("nodesupdate")' = Count("nodesupdate") + 1
             /\ Len(emitted') = Len(emitted) + 1
             /\ Len(queue') = Len(queue) + 1
             /\ conn' = conn /\ cap_auth' = cap_auth
             /\ UNCHANGED <<core_name, core_version, nodes, retry, wpc>>
        /\ Cardinality(DeliveredAt({"nodesupdate"}))' # Cardinality(DeliveredAt({"nodesupdate"})) =>
             /\ UNCHANGED <<core_name, core_version, client_serial, exit_app>>
             /\ UNCHANGED <<conn, cap_auth, emitted>>
      ]_vars

C12_Witness ==
    /\ DeliveredAt({"nodesupdate"}) # {}
    /\ conn = "up" /\ cap_auth
    /\ core_name = PyStr(DaemonName) /\ core_version = PyStr(DaemonVersion)
    /\ nodes = <<Descriptor(NodeA1), Descriptor(NodeK1)>>

\* The corelogupdate calls the SysTrayContext has run, in order, and the
\* lines they were given, without the newline.
LogCalls == SelectSeq(delivered, LAMBDA c : c.slot = "corelogupdate")
DeliveredLines == [i \in 1..Len(LogCalls) |-> DropLast(LogCalls[i].ev.entry)]

IsSuffix(a, b) ==
    /\ Len(a) <= Len(b)
    /\ \A i \in 1..Len(a) : a[i] = b[Len(b) - Len(a) + i]

C14_ResetReachesRunningLoop ==
    (/\ \E i \in 1..Len(workerQueue) : workerQueue[i].running
     /\ client = "HIDIOClient" /\ ~stopRaised)
        ~> (workerQueue = <<>> /\ wpc \in {"polling", "sleeping"})

\* C15: the main thread itself never uses the worker's client or its event
\* loop: whatever it asks of the worker is run by the worker's thread.
C15_WorkerOwnsClientAndLoop == consumerAccess = {}

\* C16: finished is emitted only once stop()'s disconnect has run or
\* something has raised: while retry_connection_status() is true and the
\* session loop has not raised there is no finished emission, whatever
\* connections were made and broken.
C16_FinishedOnlyAfterStopOrError ==
    /\ (retry /\ ~loopRaised) => (Count("finished") = 0 /\ wpc # "returned")
    /\ Count("finished") > 0 =>
          \/ loopRaised
          \/ conn = "raised"
          \/ stopCalls > 0 /\ ~retry

C16_Witness ==
    /\ Len(ConnSeq) >= 3
    /\ stopCalls = 1 /\ ~stopRaised /\ ~loopRaised /\ conn = "down"
    /\ Count("finished") = 1

\* C19: finished is the last emission of a run: nothing is emitted after it,
\* with the connect task still pending and with stop() called again.
C19_FinishedIsLast ==
    \A i \in 1..Len(emitted) : emitted[i].sig = "finished" => i = Len(emitted)

C19_Witness ==
    /\ emitted # <<>> /\ emitted[Len(emitted)].sig = "finished"
    /\ conn = "up" /\ ninputs < MaxInputs
    /\ stopCalls = 2 /\ ready = 1 /\ wpc = "done"

\* The finished emissions whose quit call the SysTrayContext has run.
QuitCalls == SelectSeq(delivered, LAMBDA c : c.slot = "quit")

\* C17: exit_app is set by the quit slot only, run for a finished emission;
\* main()'s loop ends, no exception having ended it, only when that has
\* happened; and stop_hidio (Exit) calls stop() and changes neither exit_app
\* nor the main loop.
C17_MainLoopEndsAfterFinished ==
    /\ [](exit_app => (QuitCalls # <<>> /\ QuitCalls[1].ev.sig = "finished"))
    /\ []((~mainRunning /\ main_return # Unset /\ main_raised = "None")
            => (exit_app /\ QuitCalls # <<>>))
    /\ [][stopCalls' # stopCalls =>
            UNCHANGED <<exit_app, mainRunning, main_return, delivered>>]_vars
    /\ [][exit_app' # exit_app => Len(QuitCalls)' = Len(QuitCalls) + 1]_vars

C17_Witness ==
    /\ ~mainRunning /\ main_raised = "None" /\ main_return = PyInt(0)
    /\ stopCalls = 1 /\ ~stopRaised
    /\ Len(QuitCalls) = 1

C20_MainReturnIgnoresWorkerCode ==
    main_return # Unset =>
        /\ ~mainRunning
        /\ main_return \in {PyInt(0), PyInt(1)}
        /\ main_raised = "None" => (main_return = PyInt(0) /\ exit_app)
        /\ (main_return = PyInt(1)) <=> (main_raised = "KeyboardInterrupt")

C20_Witness ==
    /\ main_return = PyInt(0) /\ main_raised = "None"
    /\ Len(QuitCalls) = 1 /\ QuitCalls[1].ev = Finished(PyInt(1))

====
